---- MODULE Spec2Model ----
(***************************************************************************)
(* Model of the autonomous deployment pipeline                             *)
(* (src/autonomous_deployer.py, AutonomousDeployer.deploy_mvp) and of the  *)
(* collaborators it drives.  One deploy_mvp call is a state machine whose  *)
(* position pc is the stage block of the method that runs next; every      *)
(* response of an external service is an input chosen with \E.             *)
(***************************************************************************)
EXTENDS Integers, Sequences, FiniteSets, TLC

VARIABLES
    creds,           \* names of the credentials that are present (truthy)
    platforms,       \* self.platforms: the registered platform IDs
    platform,        \* argument platform of deploy_mvp
    custom_domain,   \* argument custom_domain of deploy_mvp (TRUE: a domain)
    pc,              \* the stage block of deploy_mvp that runs next
    deployment_log,  \* the local list deployment_log
    calls,           \* collaborator methods invoked so far, in order
    entered,         \* stage blocks entered so far, in order
    locals,          \* the *_result locals of deploy_mvp
    app_url,         \* the local app_url
    raised,          \* the exception raised inside the try block, if any
    result,          \* what deploy_mvp handed to its caller
    probes,          \* the GET requests _verify_deployment issued, with
                     \* what each came back with
    provisioned,     \* resources the adapter call created on the platform
    clock,           \* int(time.time()): the wall clock in whole seconds
    repo_names,      \* the repo_name of every deploy_mvp call so far
    blocked,         \* the request deploy_mvp waits in forever, if any
    validation,      \* what validate_credentials returned, once called
    steps,           \* the steps a collaborator ran inside one call, each
                     \* with its outcome
    cwd,             \* the working directory of the process
    temp_dirs,       \* the temp_dir of every _push_mvp_files call so far
    fs,              \* the temporary directories that exist on disk
    log_reads,       \* credential entries whose value is part of the text
                     \* of a log line or of the returned error
    given_url,       \* the app_url argument each stage passed on
    users,           \* the rows of table users of the web application
    requests,        \* the /api/optimize requests received, each with
                     \* its position in the handler
    response         \* the response /api/optimize sent last

vars == <<creds, platforms, platform, custom_domain, pc, deployment_log,
          calls, entered, locals, app_url, raised, result, probes,
          provisioned, clock, repo_names, blocked, validation, steps, cwd,
          temp_dirs, fs, log_reads, given_url, users, requests, response>>

----------------------------------------------------------------------------
(* Bounds *)

\* Init draws every credential mapping that lacks at most MaxAbsent names.
MaxAbsent == 2

----------------------------------------------------------------------------
(* Inputs *)

CredNames ==
    {"RENDER_API_KEY", "RAILWAY_TOKEN", "VERCEL_TOKEN", "GITHUB_TOKEN",
     "GODADDY_API_KEY", "GODADDY_SECRET", "SENDGRID_API_KEY",
     "MAILGUN_API_KEY", "MAILCHIMP_API_KEY", "SENTRY_DSN",
     "DATADOG_API_KEY", "STRIPE_SECRET_KEY"}

\* Platform identifiers a caller may pass; "heroku" is never registered.
PlatformIDs == {"render", "railway", "vercel", "heroku"}

\* What an HTTP probe can come back with: a status code or no response.
ProbeOutcomes == {"200", "204", "500", "timeout"}

----------------------------------------------------------------------------
(* The stages of the pipeline, in the order of the blocks of deploy_mvp *)

StageOrder ==
    <<"CreateRepo", "PushSource", "InjectSecrets", "SelectPlatform", "Deploy",
      "BindDomain", "Monitoring", "CI", "Email", "BusinessOps", "Verify">>

Stages == {StageOrder[i] : i \in 1..Len(StageOrder)}

StageIndex(s) == CHOOSE i \in 1..Len(StageOrder) : StageOrder[i] = s

\* The block that follows a block that ran to its end.
NextStageSwapped(s, domain) ==
    CASE s = "CreateRepo" -> "PushSource"
      [] s = "PushSource" -> "InjectSecrets"
      [] s = "InjectSecrets" -> "SelectPlatform"
      [] s = "SelectPlatform" -> "Deploy"
      [] s = "Deploy" -> IF domain THEN "BindDomain" ELSE "Monitoring"
      [] s = "BindDomain" -> "Monitoring"
      [] s = "Monitoring" -> "Email"
      [] s = "Email" -> "CI"
      [] s = "CI" -> "BusinessOps"
      [] s = "BusinessOps" -> "Verify"
      [] OTHER -> "done"

NextStageStopsAfterSecrets(s, domain) ==
    CASE s = "CreateRepo" -> "PushSource"
      [] s = "PushSource" -> "InjectSecrets"
      [] s = "InjectSecrets" -> "done"
      [] s = "SelectPlatform" -> "Deploy"
      [] s = "Deploy" -> IF domain THEN "BindDomain" ELSE "Monitoring"
      [] s = "BindDomain" -> "Monitoring"
      [] s = "Monitoring" -> "CI"
      [] s = "CI" -> "Email"
      [] s = "Email" -> "BusinessOps"
      [] s = "BusinessOps" -> "Verify"
      [] OTHER -> "done"

NextStage(s, domain) ==
    CASE s = "CreateRepo" -> "PushSource"
      [] s = "PushSource" -> "InjectSecrets"
      [] s = "InjectSecrets" -> "SelectPlatform"
      [] s = "SelectPlatform" -> "Deploy"
      [] s = "Deploy" -> IF domain THEN "BindDomain" ELSE "Monitoring"
      [] s = "BindDomain" -> "Monitoring"
      [] s = "Monitoring" -> "CI"
      [] s = "CI" -> "Email"
      [] s = "Email" -> "BusinessOps"
      [] s = "BusinessOps" -> "Verify"
      [] OTHER -> "done"

\* Where control goes after a `return {...}` inside a stage block.
AfterReturnFallsThrough(s, domain) == NextStage(s, domain)

AfterReturnRetries(s, domain) == s

AfterReturn(s, domain) == "done"

----------------------------------------------------------------------------
(* Log lines.  A line is identified by the block that appended it and by   *)
(* its kind: "start" is the announcement a block opens with, "ok" a line   *)
(* with a check mark, "warn" a line with a warning sign, "fail" the line   *)
(* of the except handler.  The announcement "Deploying to <platform>..."   *)
(* opens the block whose first step is the registry lookup, so it is the   *)
(* start line of SelectPlatform; the Deploy stage has no announcement.     *)

Entry(stage, kind) == [stage |-> stage, kind |-> kind]

\* The line appended by the except handler names no stage.
ExceptionEntry == Entry("Deployment", "fail")

\* Lines a block appends when it is entered.
StartLinesNone(stage) == << >>

StartLines(stage) ==
    IF stage = "Deploy" THEN << >> ELSE <<Entry(stage, "start")>>

\* Lines a degradable block appends for a result r that it can read.
OutcomeLinesSilentWarning(stage, r) ==
    IF r.success THEN <<Entry(stage, "ok")>> ELSE << >>

OutcomeLines(stage, r) ==
    IF r.success THEN <<Entry(stage, "ok")>> ELSE <<Entry(stage, "warn")>>

----------------------------------------------------------------------------
(* Results of collaborators: success flag and presence of the 'error' key *)

Unset == [set |-> FALSE, success |-> FALSE, has_error |-> FALSE]

Ok == [set |-> TRUE, success |-> TRUE, has_error |-> FALSE]

Failed == [set |-> TRUE, success |-> FALSE, has_error |-> TRUE]

\* success=False without an 'error' key
FailedNoError == [set |-> TRUE, success |-> FALSE, has_error |-> FALSE]

Has(c, name) == name \in c

\* One step inside the method `of`: the call it made and whether it
\* succeeded.
Step(of, step, ok) == [of |-> of, step |-> step, ok |-> ok]

----------------------------------------------------------------------------
(* CredentialManager.validate_credentials *)

\* The checks of the validation dict in the order of the dict; a check is
\* the set of names has_credential must hold for.
ChecklistDomainKeyOnly ==
    <<{"RAILWAY_TOKEN"}, {"VERCEL_TOKEN"}, {"RENDER_API_KEY"},
      {"GITHUB_TOKEN"}, {"GITHUB_APP_ID"}, {"GITHUB_PRIVATE_KEY"},
      {"GODADDY_API_KEY"},
      {"SENDGRID_API_KEY"}, {"MAILGUN_API_KEY"}, {"MAILCHIMP_API_KEY"},
      {"OPENAI_API_KEY"}, {"STRIPE_SECRET_KEY"}, {"TELEGRAM_BOT_TOKEN"}>>

Checklist ==
    <<{"RAILWAY_TOKEN"}, {"VERCEL_TOKEN"}, {"RENDER_API_KEY"},
      {"GITHUB_TOKEN"}, {"GITHUB_APP_ID"}, {"GITHUB_PRIVATE_KEY"},
      {"GODADDY_API_KEY", "GODADDY_SECRET"},
      {"SENDGRID_API_KEY"}, {"MAILGUN_API_KEY"}, {"MAILCHIMP_API_KEY"},
      {"OPENAI_API_KEY"}, {"STRIPE_SECRET_KEY"}, {"TELEGRAM_BOT_TOKEN"}>>

ChecklistNames == UNION {Checklist[i] : i \in 1..Len(Checklist)}

\* self.credentials.get(key) is not None
has_credential(c, key) == key \in c

\* The two counters after the first n checks of the loop.
RECURSIVE CountChecks(_, _, _)
CountChecks(c, list, n) ==
    IF n = 0 THEN [total_checks |-> 0, passed_checks |-> 0]
    ELSE LET before == CountChecks(c, list, n - 1)
             status == \A k \in list[n] : has_credential(c, k)
         IN  [total_checks |-> before.total_checks + 1,
              passed_checks |-> before.passed_checks
                                    + (IF status THEN 1 ELSE 0)]

NoValidation == [done |-> FALSE, passed |-> 0, total |-> 0]

\* readiness_score is f"{passed_checks}/{total_checks}"
validate_credentials(c) ==
    LET n == CountChecks(c, Checklist, Len(Checklist))
    IN  [done |-> TRUE, passed |-> n.passed_checks, total |-> n.total_checks]

----------------------------------------------------------------------------
(* GitHubAutomation *)

RepoResponses == {"201", "422", "exception"}

create_repository(resp) == IF resp = "201" THEN Ok ELSE Failed

SecretResponses == {"ok", "list_error", "repo_not_listed", "exception"}

\* Returns a bool; it is kept as a result without an 'error' key.
setup_environment_variables(resp) ==
    IF resp = "ok" THEN Ok ELSE FailedNoError

----------------------------------------------------------------------------
(* AutonomousDeployer._push_mvp_files *)

PushSteps == <<"clone", "copy", "add", "commit", "push">>

PushFailures == {PushSteps[i] : i \in 1..Len(PushSteps)} \cup {"none"}

\* subprocess.run(..., check=True) raises when git fails, the copy raises
\* on an I/O error; both handlers return a failure.
push_mvp_files_unchecked_push(failAt) ==
    IF failAt \in {"none", "push"} THEN Ok ELSE Failed

push_mvp_files(failAt) == IF failAt = "none" THEN Ok ELSE Failed

\* The steps that ran when the step failAt fails, each with its outcome:
\* the step that raises ends the try block.
StepsRun(failAt) ==
    LET n == IF failAt = "none" THEN Len(PushSteps)
             ELSE CHOOSE i \in 1..Len(PushSteps) : PushSteps[i] = failAt
    IN  [i \in 1..n |->
            Step("_push_mvp_files", PushSteps[i], PushSteps[i] # failAt)]

\* Directories are named by a prefix and a number.
OriginalCwd == [prefix |-> "caller", suffix |-> 0]

\* f"/tmp/deploy_{int(time.time())}"
TempDir(t) == [prefix |-> "/tmp/deploy", suffix |-> t]

\* os.makedirs(temp_dir, exist_ok=True); nothing removes the directory.
DirsAfterPush(dirs, tmp) == dirs \cup {tmp}

\* os.chdir(temp_dir) runs once clone and copy are through.
ChdirReached(failAt) == failAt \notin {"clone", "copy"}

\* The working directory when _push_mvp_files returns: the git commands
\* run in a try whose finally does os.chdir(original_cwd).
CwdAfterPushNoFinally(failAt, orig, tmp) ==
    IF failAt \in {"add", "commit", "push"} THEN tmp ELSE orig

CwdAfterPush(failAt, orig, tmp) ==
    LET original_cwd == orig
        inside == IF ChdirReached(failAt) THEN tmp ELSE orig
    IN  IF ChdirReached(failAt) THEN original_cwd ELSE inside

----------------------------------------------------------------------------
(* Platform adapters: RenderDeployment, RailwayDeployment, VercelDeployment *)

\* self.platforms as built by __init__, in insertion order.
PlatformList(c) ==
    (IF Has(c, "RENDER_API_KEY") THEN <<"render">> ELSE << >>)
    \o (IF Has(c, "RAILWAY_TOKEN") THEN <<"railway">> ELSE << >>)
    \o (IF Has(c, "VERCEL_TOKEN") THEN <<"vercel">> ELSE << >>)

Registry(c) == {PlatformList(c)[i] : i \in 1..Len(PlatformList(c))}

\* `platform not in self.platforms` is the negation of this.
RegisteredAlways(p, regs) == TRUE

Registered(p, regs) == p \in regs

\* The method the conditional expression of deploy_mvp dispatches to.
AdapterOpRenderOnly(p) == "create_service"

AdapterOp(p) ==
    IF p = "render" THEN "create_service"
    ELSE IF p = "railway" THEN "deploy_project"
    ELSE "create_deployment"

AdapterResponses(p) ==
    IF p = "render" THEN {"ok", "user_error", "service_error", "exception"}
    ELSE IF p = "railway"
    THEN {"ok", "project_http_error", "project_graphql_error",
          "service_http_error", "service_graphql_error", "exception"}
    ELSE {"ok", "api_error", "exception"}

\* The identifiers the dict returned by the adapter carries.
ReportedIds(p, resp) ==
    IF resp # "ok" THEN {}
    ELSE IF p = "render" THEN {"service"}
    ELSE IF p = "railway" THEN {"project", "service"}
    ELSE {"deployment"}

\* What exists on the platform after the adapter call.  deploy_project
\* creates the project with its first request and the service with its
\* second; the other adapters create their resource with one request.
CreatedResources(p, resp) ==
    IF p = "render" THEN (IF resp = "ok" THEN {"service"} ELSE {})
    ELSE IF p = "railway"
    THEN (IF resp = "ok" THEN {"project", "service"}
          ELSE IF resp \in {"service_http_error", "service_graphql_error"}
          THEN {"project"}
          ELSE {})
    ELSE (IF resp = "ok" THEN {"deployment"} ELSE {})

Provision(p, resp) ==
    [set |-> TRUE, success |-> resp = "ok", has_error |-> resp # "ok",
     ids |-> ReportedIds(p, resp)]

----------------------------------------------------------------------------
(* DomainManager.setup_domain *)

AvailabilityResponses == {"available", "taken", "error"}

\* The methods setup_domain calls, in order, each with its 'success'.
DomainSteps(c, avail, regOk, dnsOk) ==
    LET check(ok) == Step("setup_domain", "check_domain_availability", ok)
        register(ok) == Step("setup_domain", "register_domain", ok)
        dns(ok) == Step("setup_domain", "configure_dns", ok)
    IN  IF ~Has(c, "GODADDY_API_KEY") THEN << >>
        ELSE IF ~Has(c, "GODADDY_SECRET") \/ avail = "error"
        THEN <<check(FALSE)>>
        ELSE IF avail = "available"
        THEN (IF regOk THEN <<check(TRUE), register(TRUE), dns(dnsOk)>>
              ELSE <<check(TRUE), register(FALSE)>>)
        ELSE <<check(TRUE), dns(dnsOk)>>

setup_domain_dns_decides(c, avail, regOk, dnsOk) ==
    IF ~Has(c, "GODADDY_API_KEY") THEN Failed
    ELSE IF ~Has(c, "GODADDY_SECRET") THEN Failed
    ELSE IF avail = "error" THEN Failed
    ELSE IF dnsOk THEN Ok ELSE Failed

setup_domain(c, avail, regOk, dnsOk) ==
    IF ~Has(c, "GODADDY_API_KEY") THEN Failed
    \* without the secret godaddy_headers was never set: the availability
    \* check raises inside its own try and returns a failure
    ELSE IF ~Has(c, "GODADDY_SECRET") THEN Failed
    ELSE IF avail = "error" THEN Failed
    ELSE IF avail = "available" /\ ~regOk THEN Failed
    ELSE IF dnsOk THEN Ok ELSE Failed

----------------------------------------------------------------------------
(* MonitoringSetup.setup_monitoring *)

\* monitoring_results: the success flags of the checks, in order.
MonitoringResults(c, ddOk, health, uptime) ==
    (IF Has(c, "SENTRY_DSN") THEN <<TRUE>> ELSE << >>)
    \o (IF Has(c, "DATADOG_API_KEY") THEN <<ddOk>> ELSE << >>)
    \o <<health = "200">>
    \o <<uptime = "200">>

\* The computed result carries no 'error' key, whatever its success flag.
setup_monitoring(c, ddOk, health, uptime) ==
    LET rs == MonitoringResults(c, ddOk, health, uptime)
    IN  [set |-> TRUE,
         success |-> \E i \in 1..Len(rs) : rs[i],
         has_error |-> FALSE,
         total_services |-> Len(rs)]

\* The checks setup_monitoring runs, in the order it runs them.
MonitoringChecks(c) ==
    (IF Has(c, "SENTRY_DSN") THEN <<"_setup_sentry_monitoring">> ELSE << >>)
    \o (IF Has(c, "DATADOG_API_KEY")
        THEN <<"_setup_datadog_monitoring">> ELSE << >>)
    \o <<"_setup_health_check_monitoring", "_setup_uptime_monitoring">>

MonitoringStepsUntilFailure(c, ddOk, health, uptime) ==
    LET names == MonitoringChecks(c)
        rs == MonitoringResults(c, ddOk, health, uptime)
        q == [i \in 1..Len(names) |->
                 Step("setup_monitoring", names[i], rs[i])]
        failed == {i \in 1..Len(q) : ~q[i].ok}
    IN  IF failed = {} THEN q
        ELSE SubSeq(q, 1, CHOOSE i \in failed : \A j \in failed : i <= j)

MonitoringSteps(c, ddOk, health, uptime) ==
    LET names == MonitoringChecks(c)
        rs == MonitoringResults(c, ddOk, health, uptime)
    IN  [i \in 1..Len(names) |-> Step("setup_monitoring", names[i], rs[i])]

----------------------------------------------------------------------------
(* CICDPipeline.setup_pipeline *)

setup_pipeline(c, workflowOk) ==
    IF ~Has(c, "GITHUB_TOKEN") THEN Failed
    ELSE IF workflowOk THEN Ok ELSE Failed

\* The requests of setup_pipeline: the workflow file, then the branch
\* protection and the environments.
PipelineStepsAfterFailure(c, workflowOk, protectionOk, envOk) ==
    IF ~Has(c, "GITHUB_TOKEN") THEN << >>
    ELSE <<Step("setup_pipeline", "_create_github_actions_workflow",
                workflowOk),
           Step("setup_pipeline", "_setup_branch_protection", protectionOk),
           Step("setup_pipeline", "_create_deployment_environments", envOk)>>

PipelineSteps(c, workflowOk, protectionOk, envOk) ==
    IF ~Has(c, "GITHUB_TOKEN") THEN << >>
    ELSE IF ~workflowOk
    THEN <<Step("setup_pipeline", "_create_github_actions_workflow", FALSE)>>
    ELSE <<Step("setup_pipeline", "_create_github_actions_workflow", TRUE),
           Step("setup_pipeline", "_setup_branch_protection", protectionOk),
           Step("setup_pipeline", "_create_deployment_environments", envOk)>>

----------------------------------------------------------------------------
(* EmailService.setup_notifications *)

EmailBackendSendgridFirst(c) ==
    IF Has(c, "SENDGRID_API_KEY") THEN "sendgrid"
    ELSE IF Has(c, "MAILCHIMP_API_KEY") THEN "mailchimp"
    ELSE IF Has(c, "MAILGUN_API_KEY") THEN "mailgun"
    ELSE "none"

EmailBackend(c) ==
    IF Has(c, "MAILCHIMP_API_KEY") THEN "mailchimp"
    ELSE IF Has(c, "SENDGRID_API_KEY") THEN "sendgrid"
    ELSE IF Has(c, "MAILGUN_API_KEY") THEN "mailgun"
    ELSE "none"

setup_notifications(c, backendOk) ==
    IF EmailBackend(c) = "none" THEN Failed
    ELSE IF backendOk THEN Ok ELSE Failed

\* The backend method setup_notifications calls, with its 'success'.
BackendMethod(backend) ==
    IF backend = "mailchimp" THEN "_setup_mailchimp_notifications"
    ELSE IF backend = "sendgrid" THEN "_setup_sendgrid_notifications"
    ELSE "_setup_mailgun_notifications"

EmailSteps(c, backendOk) ==
    IF EmailBackend(c) = "none" THEN << >>
    ELSE <<Step("setup_notifications", BackendMethod(EmailBackend(c)),
                backendOk)>>

\* How a backend fails: the service answers with an error status, or the
\* request raises; the text of the exception may name the URL of the
\* request.
EmailFailures == {"status", "exception", "exception_naming_url"}

\* The credential entries the URL of the backend is built from:
\* mailchimp_base_url is f"https://{self.mailchimp_server}.api.mailchimp.com/3.0",
\* mailgun_base_url is f"https://api.mailgun.net/v3/{self.mailgun_domain}".
UrlReads(backend) ==
    IF backend = "mailchimp" THEN {"MAILCHIMP_SERVER"}
    ELSE IF backend = "mailgun" THEN {"MAILGUN_DOMAIN"}
    ELSE {}

\* The credential entries whose value is part of result['error']: a
\* backend that catches an exception returns f"... setup failed: {str(e)}".
ErrorReads(c, backendOk, how) ==
    IF ~backendOk /\ how = "exception_naming_url"
    THEN UrlReads(EmailBackend(c))
    ELSE {}

----------------------------------------------------------------------------
(* BusinessOperations.setup_operations *)

\* operations_results: legal, support, analytics, billing, marketing.
OperationsResultsBillingOnly(c) ==
    <<Has(c, "STRIPE_SECRET_KEY")>>

OperationsResults(c) ==
    <<TRUE, TRUE, TRUE, Has(c, "STRIPE_SECRET_KEY"), TRUE>>

setup_operations(c) ==
    LET rs == OperationsResults(c)
    IN  [set |-> TRUE,
         success |-> \E i \in 1..Len(rs) : rs[i],
         has_error |-> FALSE]

----------------------------------------------------------------------------
(* AutonomousDeployer._verify_deployment *)

NoVerification ==
    [health_check |-> FALSE, main_page |-> FALSE, overall_status |-> FALSE,
     error |-> FALSE, done |-> FALSE]

\* The requests issued: the root page is requested only after the health
\* request has returned a response.
ProbesIssued(health, main) ==
    IF health = "timeout"
    THEN <<[probe |-> "health", outcome |-> health]>>
    ELSE <<[probe |-> "health", outcome |-> health],
           [probe |-> "main", outcome |-> main]>>

verify_deployment_either(health, main) ==
    IF health = "timeout" \/ main = "timeout"
    THEN [health_check |-> FALSE, main_page |-> FALSE,
          overall_status |-> FALSE, error |-> TRUE, done |-> TRUE]
    ELSE [health_check |-> health = "200", main_page |-> main = "200",
          overall_status |-> health = "200" \/ main = "200",
          error |-> FALSE, done |-> TRUE]

\* The health probe is issued first; a probe that raises ends the try block.
verify_deployment(health, main) ==
    IF health = "timeout" \/ main = "timeout"
    THEN [health_check |-> FALSE, main_page |-> FALSE,
          overall_status |-> FALSE, error |-> TRUE, done |-> TRUE]
    ELSE [health_check |-> health = "200", main_page |-> main = "200",
          overall_status |-> health = "200" /\ main = "200",
          error |-> FALSE, done |-> TRUE]

----------------------------------------------------------------------------
(* AutonomousDeployer.get_deployment_status *)

\* Reads self.platforms and self.credentials; it changes nothing.
get_deployment_status(regs, c) ==
    [platforms_available |-> regs,
     github_ready |-> Has(c, "GITHUB_TOKEN"),
     domain_management |-> Has(c, "GODADDY_API_KEY"),
     email_services |-> Has(c, "SENDGRID_API_KEY"),
     monitoring_ready |-> Has(c, "SENTRY_DSN")]

----------------------------------------------------------------------------
(* What deploy_mvp returns *)

NoError == [kind |-> "none", platform |-> "none", available |-> << >>]

Err(kind) == [kind |-> kind, platform |-> "none", available |-> << >>]

\* f"Platform {platform} not available. Available: {list(self.platforms.keys())}"
PlatformError(p, c) ==
    [kind |-> "Platform not available", platform |-> p,
     available |-> PlatformList(c)]

\* f"{platform.title()} deployment failed: {deploy_result['error']}"
DeployError(p) ==
    [kind |-> "deployment failed", platform |-> p, available |-> << >>]

\* The keys of the dict returned on a failure and on a success.
FailureKeys == {"success", "error", "log"}

SuccessKeys ==
    {"success", "app_url", "repo_url", "platform", "deployment_id",
     "verification", "log", "timestamp"}

NoResult ==
    [state |-> "none", success |-> FALSE, error |-> NoError,
     app_url |-> "none", verification |-> NoVerification, log |-> << >>,
     keys |-> {}]

FailureResultTruthy(err, log) ==
    [state |-> "returned", success |-> TRUE, error |-> err,
     app_url |-> "none", verification |-> NoVerification, log |-> log,
     keys |-> FailureKeys]

FailureResult(err, log) ==
    [state |-> "returned", success |-> FALSE, error |-> err,
     app_url |-> "none", verification |-> NoVerification, log |-> log,
     keys |-> FailureKeys]

SuccessResultWithoutLog(url, ver, log) ==
    [state |-> "returned", success |-> TRUE, error |-> NoError,
     app_url |-> url, verification |-> ver, log |-> << >>,
     keys |-> SuccessKeys \ {"log"}]

SuccessResult(url, ver, log) ==
    [state |-> "returned", success |-> TRUE, error |-> NoError,
     app_url |-> url, verification |-> ver, log |-> log,
     keys |-> SuccessKeys]

\* `except Exception`: the classes of exception the handler catches.
HandlesOnlyGitErrors(exc) == exc = "CalledProcessError"

HandlesException(exc) == exc \notin {"KeyboardInterrupt", "SystemExit"}

\* app_url after the custom-domain block: f"https://{custom_domain}" when
\* the domain was set up, else unchanged.
UrlAfterDomainKeepsPlatform(r, url) == url

UrlAfterDomain(r, url) == IF r.success THEN "custom_domain_url" ELSE url

\* No stage has passed app_url on yet.
NoUrls == [s \in Stages |-> "none"]

\* The deployer does not touch the database of the web application.
NoUsers == << >>

NoRequests == << >>

NoReply == [status |-> 0, engagement_score |-> 0, usage_count |-> 0]

NoLocals ==
    [repo_result |-> Unset, push_result |-> Unset, env_result |-> Unset,
     deploy_result |-> Unset, domain_result |-> Unset,
     monitoring_result |-> Unset, cicd_result |-> Unset,
     email_result |-> Unset, business_result |-> Unset]

----------------------------------------------------------------------------
(* deploy_mvp *)

\* f"ai-content-optimizer-{int(time.time())}"
RepoName(t) == [prefix |-> "ai-content-optimizer", suffix |-> t]

Init ==
    /\ creds \in {c \in SUBSET CredNames :
                     Cardinality(CredNames \ c) <= MaxAbsent}
    /\ platforms = Registry(creds)
    /\ platform \in PlatformIDs
    /\ custom_domain \in BOOLEAN
    /\ pc = "CreateRepo"
    /\ deployment_log = << >>
    /\ calls = << >>
    /\ entered = << >>
    /\ locals = NoLocals
    /\ app_url = "none"
    /\ raised = "none"
    /\ result = NoResult
    /\ probes = << >>
    /\ provisioned = {}
    /\ clock = 0
    /\ repo_names = << >>
    /\ blocked = "none"
    /\ validation = NoValidation
    /\ steps = << >>
    /\ cwd = OriginalCwd
    /\ temp_dirs = << >>
    /\ fs = {}
    /\ log_reads = {}
    /\ given_url = NoUrls
    /\ users = NoUsers
    /\ requests = NoRequests
    /\ response = NoReply

\* An exception raised in the try block with log lg accumulated so far.
Raise(exc, lg) ==
    /\ raised' = exc
    /\ pc' = "done"
    /\ IF HandlesException(exc)
       THEN /\ deployment_log' = Append(lg, ExceptionEntry)
            /\ result' = FailureResult(Err(exc), Append(lg, ExceptionEntry))
       ELSE /\ deployment_log' = lg
            /\ result' = [NoResult EXCEPT !.state = "raised"]

\* `return {'success': False, ...}` inside the block of stage s.
ReturnFailure(s, err, lg) ==
    /\ deployment_log' = lg
    /\ result' = FailureResult(err, lg)
    /\ pc' = AfterReturn(s, custom_domain)
    /\ raised' = raised

\* The if/else on r['success'] of a degradable block; the else branch
\* reads r['error'].
LogOutcome(s, r, lg) ==
    IF r.success \/ r.has_error
    THEN /\ deployment_log' = lg \o OutcomeLines(s, r)
         /\ pc' = NextStage(s, custom_domain)
         /\ UNCHANGED <<raised, result>>
    ELSE Raise("KeyError", lg)

Inputs == <<creds, platforms, platform, custom_domain>>

CreateRepo ==
    /\ pc = "CreateRepo"
    /\ \E resp \in RepoResponses :
         LET lg == deployment_log \o StartLines("CreateRepo")
             r == create_repository(resp)
         IN  /\ locals' = [locals EXCEPT !.repo_result = r]
             /\ IF ~r.success
                THEN ReturnFailure("CreateRepo",
                         Err("GitHub repository creation failed"), lg)
                ELSE /\ deployment_log' = Append(lg, Entry("CreateRepo", "ok"))
                     /\ pc' = NextStage("CreateRepo", custom_domain)
                     /\ UNCHANGED <<raised, result>>
    /\ repo_names' = Append(repo_names, RepoName(clock))
    /\ calls' = Append(calls, "create_repository")
    /\ entered' = Append(entered, "CreateRepo")
    /\ UNCHANGED <<Inputs, app_url,
                 probes, provisioned, clock, blocked>>
    /\ UNCHANGED <<validation, steps, cwd, temp_dirs, fs, log_reads>>
    /\ UNCHANGED <<given_url, users, requests, response>>

PushSource ==
    /\ pc = "PushSource"
    /\ \E failAt \in PushFailures :
         LET lg == deployment_log \o StartLines("PushSource")
             r == push_mvp_files(failAt)
         IN  /\ locals' = [locals EXCEPT !.push_result = r]
             /\ steps' = StepsRun(failAt)
             /\ cwd' = CwdAfterPush(failAt, cwd, TempDir(clock))
             /\ IF ~r.success
                THEN ReturnFailure("PushSource", Err("File push failed"), lg)
                ELSE /\ deployment_log' = Append(lg, Entry("PushSource", "ok"))
                     /\ pc' = NextStage("PushSource", custom_domain)
                     /\ UNCHANGED <<raised, result>>
    /\ temp_dirs' = Append(temp_dirs, TempDir(clock))
    /\ fs' = DirsAfterPush(fs, TempDir(clock))
    /\ calls' = Append(calls, "_push_mvp_files")
    /\ entered' = Append(entered, "PushSource")
    /\ UNCHANGED <<validation, log_reads>>
    /\ UNCHANGED <<Inputs, app_url,
                 probes, provisioned, clock, repo_names, blocked>>
    /\ UNCHANGED <<given_url, users, requests, response>>

InjectSecrets ==
    /\ pc = "InjectSecrets"
    /\ \E resp \in SecretResponses :
         LET lg == deployment_log \o StartLines("InjectSecrets")
             r == setup_environment_variables(resp)
         IN  /\ locals' = [locals EXCEPT !.env_result = r]
             /\ deployment_log' = lg \o OutcomeLines("InjectSecrets", r)
    /\ pc' = NextStage("InjectSecrets", custom_domain)
    /\ calls' = Append(calls, "setup_environment_variables")
    /\ entered' = Append(entered, "InjectSecrets")
    /\ UNCHANGED <<Inputs, app_url, raised, result,
                 probes, provisioned, clock, repo_names, blocked>>
    /\ UNCHANGED <<validation, steps, cwd, temp_dirs, fs, log_reads>>
    /\ UNCHANGED <<given_url, users, requests, response>>

SelectPlatform ==
    /\ pc = "SelectPlatform"
    /\ LET lg == deployment_log \o StartLines("SelectPlatform")
       IN  IF ~Registered(platform, platforms)
           THEN ReturnFailure("SelectPlatform",
                    PlatformError(platform, creds), lg)
           ELSE /\ deployment_log' = lg
                /\ pc' = NextStage("SelectPlatform", custom_domain)
                /\ UNCHANGED <<raised, result>>
    /\ entered' = Append(entered, "SelectPlatform")
    /\ UNCHANGED <<Inputs, calls, locals, app_url,
                 probes, provisioned, clock, repo_names, blocked>>
    /\ UNCHANGED <<validation, steps, cwd, temp_dirs, fs, log_reads>>
    /\ UNCHANGED <<given_url, users, requests, response>>

Deploy ==
    /\ pc = "Deploy"
    /\ \E resp \in AdapterResponses(platform) :
         LET lg == deployment_log \o StartLines("Deploy")
             r == Provision(platform, resp)
         IN  /\ locals' = [locals EXCEPT !.deploy_result = r]
             /\ provisioned' = CreatedResources(platform, resp)
             /\ IF ~r.success
                THEN /\ ReturnFailure("Deploy", DeployError(platform), lg)
                     /\ app_url' = app_url
                ELSE /\ deployment_log' = Append(lg, Entry("Deploy", "ok"))
                     /\ app_url' = "platform_url"
                     /\ pc' = NextStage("Deploy", custom_domain)
                     /\ UNCHANGED <<raised, result>>
    /\ calls' = Append(calls, AdapterOp(platform))
    /\ entered' = Append(entered, "Deploy")
    /\ UNCHANGED <<Inputs,
                 probes, clock, repo_names, blocked>>
    /\ UNCHANGED <<validation, steps, cwd, temp_dirs, fs, log_reads>>
    /\ UNCHANGED <<given_url, users, requests, response>>

BindDomain ==
    /\ pc = "BindDomain"
    /\ \E avail \in AvailabilityResponses, regOk \in BOOLEAN, dnsOk \in BOOLEAN :
         LET lg == deployment_log \o StartLines("BindDomain")
             r == setup_domain(creds, avail, regOk, dnsOk)
         IN  /\ locals' = [locals EXCEPT !.domain_result = r]
             /\ LogOutcome("BindDomain", r, lg)
             /\ app_url' = UrlAfterDomain(r, app_url)
    /\ calls' = Append(calls, "setup_domain")
    /\ entered' = Append(entered, "BindDomain")
    /\ UNCHANGED <<Inputs,
                 probes, provisioned, clock, repo_names, blocked>>
    /\ UNCHANGED <<validation, steps, cwd, temp_dirs, fs, log_reads>>
    /\ given_url' = [given_url EXCEPT !["BindDomain"] = app_url]
    /\ UNCHANGED <<users, requests, response>>

Monitoring ==
    /\ pc = "Monitoring"
    /\ \E ddOk \in BOOLEAN, health \in ProbeOutcomes, uptime \in ProbeOutcomes :
         LET lg == deployment_log \o StartLines("Monitoring")
             r == setup_monitoring(creds, ddOk, health, uptime)
         IN  /\ locals' = [locals EXCEPT !.monitoring_result = r]
             /\ LogOutcome("Monitoring", r, lg)
    /\ calls' = Append(calls, "setup_monitoring")
    /\ entered' = Append(entered, "Monitoring")
    /\ UNCHANGED <<Inputs, app_url,
                 probes, provisioned, clock, repo_names, blocked>>
    /\ UNCHANGED <<validation, steps, cwd, temp_dirs, fs, log_reads>>
    /\ given_url' = [given_url EXCEPT !["Monitoring"] = app_url]
    /\ UNCHANGED <<users, requests, response>>

CI ==
    /\ pc = "CI"
    /\ \E workflowOk \in BOOLEAN :
         LET lg == deployment_log \o StartLines("CI")
             r == setup_pipeline(creds, workflowOk)
         IN  /\ locals' = [locals EXCEPT !.cicd_result = r]
             /\ LogOutcome("CI", r, lg)
    /\ calls' = Append(calls, "setup_pipeline")
    /\ entered' = Append(entered, "CI")
    /\ UNCHANGED <<Inputs, app_url,
                 probes, provisioned, clock, repo_names, blocked>>
    /\ UNCHANGED <<validation, steps, cwd, temp_dirs, fs, log_reads>>
    /\ UNCHANGED <<given_url, users, requests, response>>

Email ==
    /\ pc = "Email"
    /\ \E backendOk \in BOOLEAN, how \in EmailFailures :
         LET lg == deployment_log \o StartLines("Email")
             r == setup_notifications(creds, backendOk)
         IN  /\ locals' = [locals EXCEPT !.email_result = r]
             /\ LogOutcome("Email", r, lg)
             \* the warning line is f"... Email setup failed: {r['error']}"
             /\ log_reads' = log_reads \cup ErrorReads(creds, backendOk, how)
    /\ calls' = Append(calls, "setup_notifications")
    /\ entered' = Append(entered, "Email")
    /\ UNCHANGED <<validation, steps, cwd, temp_dirs, fs>>
    /\ UNCHANGED <<Inputs, app_url,
                 probes, provisioned, clock, repo_names, blocked>>
    /\ given_url' = [given_url EXCEPT !["Email"] = app_url]
    /\ UNCHANGED <<users, requests, response>>

BusinessOps ==
    /\ pc = "BusinessOps"
    /\ LET lg == deployment_log \o StartLines("BusinessOps")
           r == setup_operations(creds)
       IN  /\ locals' = [locals EXCEPT !.business_result = r]
           /\ LogOutcome("BusinessOps", r, lg)
    /\ calls' = Append(calls, "setup_operations")
    /\ entered' = Append(entered, "BusinessOps")
    /\ UNCHANGED <<Inputs, app_url,
                 probes, provisioned, clock, repo_names, blocked>>
    /\ UNCHANGED <<validation, steps, cwd, temp_dirs, fs, log_reads>>
    /\ given_url' = [given_url EXCEPT !["BusinessOps"] = app_url]
    /\ UNCHANGED <<users, requests, response>>

Verify ==
    /\ pc = "Verify"
    /\ \E health \in ProbeOutcomes, main \in ProbeOutcomes :
         LET lg == deployment_log \o StartLines("Verify")
         IN  /\ deployment_log' = lg
             /\ probes' = ProbesIssued(health, main)
             /\ result' = SuccessResult(app_url,
                              verify_deployment(health, main), lg)
    /\ pc' = "done"
    /\ calls' = Append(calls, "_verify_deployment")
    /\ entered' = Append(entered, "Verify")
    /\ UNCHANGED <<Inputs, locals, app_url, raised,
                 provisioned, clock, repo_names, blocked>>
    /\ UNCHANGED <<validation, steps, cwd, temp_dirs, fs, log_reads>>
    /\ given_url' = [given_url EXCEPT !["Verify"] = app_url]
    /\ UNCHANGED <<users, requests, response>>

Next ==
    \/ CreateRepo
    \/ PushSource
    \/ InjectSecrets
    \/ SelectPlatform
    \/ Deploy
    \/ BindDomain
    \/ Monitoring
    \/ CI
    \/ Email
    \/ BusinessOps
    \/ Verify

Spec == Init /\ [][Next]_vars

----------------------------------------------------------------------------
(* Successive deploy_mvp calls on one deployer, and the wall clock *)

\* The clock is followed up to MaxClock seconds and the caller issues at
\* most MaxCalls calls.
MaxClock == 2

MaxCalls == 2

\* A second of wall-clock time passes.
Tick ==
    /\ clock < MaxClock
    /\ clock' = clock + 1
    /\ UNCHANGED <<Inputs, pc, deployment_log, calls, entered, locals,
                   app_url, raised, result, probes, provisioned,
                   repo_names, blocked>>
    /\ UNCHANGED <<validation, steps, cwd, temp_dirs, fs, log_reads>>
    /\ UNCHANGED <<given_url, users, requests, response>>

\* The caller calls deploy_mvp again with the same arguments once the
\* previous call is over: the locals of the method start afresh.
NewCall ==
    /\ pc = "done"
    /\ Len(repo_names) < MaxCalls
    /\ pc' = "CreateRepo"
    /\ deployment_log' = << >>
    /\ calls' = << >>
    /\ entered' = << >>
    /\ locals' = NoLocals
    /\ app_url' = "none"
    /\ raised' = "none"
    /\ result' = NoResult
    /\ probes' = << >>
    /\ provisioned' = {}
    /\ UNCHANGED <<Inputs, clock, repo_names, blocked>>
    /\ steps' = << >>
    /\ log_reads' = {}
    /\ UNCHANGED <<validation, cwd, temp_dirs, fs>>
    /\ given_url' = NoUrls
    /\ UNCHANGED <<users, requests, response>>

InitCalls == Init /\ creds = CredNames

NextCalls ==
    \/ Next
    \/ Tick
    \/ NewCall

SpecCalls == InitCalls /\ [][NextCalls]_vars

----------------------------------------------------------------------------
(* The requests each stage sends, and whether they carry timeout=...       *)

Req(name, timeout) == [req |-> name, timeout |-> timeout]

\* requests.post / get / put of GitHubAutomation
GitHubRequests(s) ==
    IF s = "CreateRepo" THEN {Req("POST /user/repos", FALSE)}
    ELSE {Req("GET /user/repos", FALSE), Req("PUT actions/secrets", FALSE)}

\* subprocess.run of git clone and git push, without timeout=
PushRequests == {Req("git clone", FALSE), Req("git push", FALSE)}

AdapterRequests(p) ==
    IF p = "render"
    THEN {Req("GET /users/me", FALSE), Req("POST /services", FALSE)}
    ELSE IF p = "railway"
    THEN {Req("projectCreate", FALSE), Req("serviceCreate", FALSE),
          Req("variableUpsert", FALSE)}
    ELSE {Req("POST /deployments", FALSE)}

DomainRequests(c) ==
    IF Has(c, "GODADDY_API_KEY") /\ Has(c, "GODADDY_SECRET")
    THEN {Req("GET /domains/available", FALSE),
          Req("POST /domains/purchase", FALSE),
          Req("PUT /domains/records", FALSE)}
    ELSE {}

MonitoringRequests(c) ==
    (IF Has(c, "DATADOG_API_KEY") THEN {Req("POST /dashboard", FALSE)}
     ELSE {})
    \cup {Req("GET /api/health", TRUE), Req("GET /", TRUE)}

CICDRequests(c) ==
    IF Has(c, "GITHUB_TOKEN")
    THEN {Req("PUT workflow", FALSE), Req("PUT branch protection", FALSE),
          Req("PUT environment", FALSE)}
    ELSE {}

EmailRequests(c) ==
    IF EmailBackend(c) = "mailchimp" THEN {Req("POST /campaigns", FALSE)}
    ELSE IF EmailBackend(c) = "sendgrid" THEN {Req("POST /templates", FALSE)}
    ELSE IF EmailBackend(c) = "mailgun" THEN {Req("GET /stats/total", FALSE)}
    ELSE {}

VerifyRequests == {Req("GET /api/health", TRUE), Req("GET /", TRUE)}

Requests(s, c, p) ==
    CASE s \in {"CreateRepo", "InjectSecrets"} -> GitHubRequests(s)
      [] s = "PushSource" -> PushRequests
      [] s = "Deploy" -> AdapterRequests(p)
      [] s = "BindDomain" -> DomainRequests(c)
      [] s = "Monitoring" -> MonitoringRequests(c)
      [] s = "CI" -> CICDRequests(c)
      [] s = "Email" -> EmailRequests(c)
      [] s = "Verify" -> VerifyRequests
      [] OTHER -> {}

\* The method a stage block calls.
CollaboratorOf(s, p) ==
    CASE s = "CreateRepo" -> "create_repository"
      [] s = "PushSource" -> "_push_mvp_files"
      [] s = "InjectSecrets" -> "setup_environment_variables"
      [] s = "Deploy" -> AdapterOp(p)
      [] s = "BindDomain" -> "setup_domain"
      [] s = "Monitoring" -> "setup_monitoring"
      [] s = "CI" -> "setup_pipeline"
      [] s = "Email" -> "setup_notifications"
      [] s = "BusinessOps" -> "setup_operations"
      [] OTHER -> "_verify_deployment"

\* The service accepts a request of the current stage and never answers.
\* A request sent with timeout= raises after the timeout and is one of the
\* failures of the stage actions; one sent without it never returns.
NoResponse ==
    /\ pc \in Stages
    /\ \E r \in Requests(pc, creds, platform) :
         /\ ~r.timeout
         /\ blocked' = r.req
    /\ pc' = "blocked"
    /\ deployment_log' = deployment_log \o StartLines(pc)
    /\ entered' = Append(entered, pc)
    /\ calls' = Append(calls, CollaboratorOf(pc, platform))
    /\ repo_names' = IF pc = "CreateRepo"
                     THEN Append(repo_names, RepoName(clock))
                     ELSE repo_names
    /\ UNCHANGED <<Inputs, locals, app_url, raised, result, probes,
                   provisioned, clock>>
    /\ UNCHANGED <<validation, steps, cwd, temp_dirs, fs, log_reads>>
    /\ UNCHANGED <<given_url, users, requests, response>>

NextNoResponse ==
    \/ Next
    \/ NoResponse

SpecNoResponse == Init /\ [][NextNoResponse]_vars

----------------------------------------------------------------------------
(* The readiness report of a CredentialManager *)

\* A credential mapping over the names of the checklist; a name is in creds
\* when its value is not None.  No deploy_mvp call is under way.
InitReadiness ==
    /\ creds \in SUBSET ChecklistNames
    /\ platforms = Registry(creds)
    /\ platform = "railway"
    /\ custom_domain = FALSE
    /\ pc = "CreateRepo"
    /\ deployment_log = << >>
    /\ calls = << >>
    /\ entered = << >>
    /\ locals = NoLocals
    /\ app_url = "none"
    /\ raised = "none"
    /\ result = NoResult
    /\ probes = << >>
    /\ provisioned = {}
    /\ clock = 0
    /\ repo_names = << >>
    /\ blocked = "none"
    /\ validation = NoValidation
    /\ steps = << >>
    /\ cwd = OriginalCwd
    /\ temp_dirs = << >>
    /\ fs = {}
    /\ log_reads = {}
    /\ given_url = NoUrls
    /\ users = NoUsers
    /\ requests = NoRequests
    /\ response = NoReply

ValidateCredentials ==
    /\ validation' = validate_credentials(creds)
    /\ UNCHANGED <<Inputs, pc, deployment_log, calls, entered, locals,
                   app_url, raised, result, probes, provisioned, clock,
                   repo_names, blocked, steps, cwd, temp_dirs, fs,
                   log_reads>>
    /\ UNCHANGED <<given_url, users, requests, response>>

NextReadiness == ValidateCredentials

SpecReadiness == InitReadiness /\ [][NextReadiness]_vars

----------------------------------------------------------------------------
(* The configurators called on their own *)

ConfiguratorCreds ==
    {"GODADDY_API_KEY", "GODADDY_SECRET", "SENDGRID_API_KEY",
     "MAILGUN_API_KEY", "MAILCHIMP_API_KEY"}

\* Every mapping over the credentials DomainManager and EmailService read;
\* the other credentials are present.
InitCollaborators ==
    /\ creds \in {c \in SUBSET CredNames : CredNames \ c \subseteq ConfiguratorCreds}
    /\ platforms = Registry(creds)
    /\ platform = "railway"
    /\ custom_domain = TRUE
    /\ pc = "CreateRepo"
    /\ deployment_log = << >>
    /\ calls = << >>
    /\ entered = << >>
    /\ locals = NoLocals
    /\ app_url = "platform_url"
    /\ raised = "none"
    /\ result = NoResult
    /\ probes = << >>
    /\ provisioned = {}
    /\ clock = 0
    /\ repo_names = << >>
    /\ blocked = "none"
    /\ validation = NoValidation
    /\ steps = << >>
    /\ cwd = OriginalCwd
    /\ temp_dirs = << >>
    /\ fs = {}
    /\ log_reads = {}
    /\ given_url = NoUrls
    /\ users = NoUsers
    /\ requests = NoRequests
    /\ response = NoReply

\* domain_manager.setup_domain(domain, target_url)
SetupDomain ==
    /\ ~locals.domain_result.set
    /\ \E avail \in AvailabilityResponses, regOk \in BOOLEAN, dnsOk \in BOOLEAN :
         /\ locals' = [locals EXCEPT
                !.domain_result = setup_domain(creds, avail, regOk, dnsOk)]
         /\ steps' = steps \o DomainSteps(creds, avail, regOk, dnsOk)
    /\ calls' = Append(calls, "setup_domain")
    /\ UNCHANGED <<Inputs, pc, deployment_log, entered, app_url, raised,
                   result, probes, provisioned, clock, repo_names, blocked,
                   validation, cwd, temp_dirs, fs, log_reads>>
    /\ UNCHANGED <<given_url, users, requests, response>>

\* email_service.setup_notifications(app_url, repo_name)
SetupNotifications ==
    /\ ~locals.email_result.set
    /\ \E backendOk \in BOOLEAN :
         /\ locals' = [locals EXCEPT
                !.email_result = setup_notifications(creds, backendOk)]
         /\ steps' = steps \o EmailSteps(creds, backendOk)
    /\ calls' = Append(calls, "setup_notifications")
    /\ UNCHANGED <<Inputs, pc, deployment_log, entered, app_url, raised,
                   result, probes, provisioned, clock, repo_names, blocked,
                   validation, cwd, temp_dirs, fs, log_reads>>
    /\ UNCHANGED <<given_url, users, requests, response>>

NextCollaborators ==
    \/ SetupDomain
    \/ SetupNotifications

SpecCollaborators == InitCollaborators /\ [][NextCollaborators]_vars

----------------------------------------------------------------------------
(* MonitoringSetup and CICDPipeline called on their own *)

MonitoringCICreds == {"SENTRY_DSN", "DATADOG_API_KEY", "GITHUB_TOKEN"}

\* Every mapping over the credentials MonitoringSetup and CICDPipeline read;
\* the other credentials are present.
InitMonitoringCI ==
    /\ creds \in {c \in SUBSET CredNames : CredNames \ c \subseteq MonitoringCICreds}
    /\ platforms = Registry(creds)
    /\ platform = "railway"
    /\ custom_domain = FALSE
    /\ pc = "CreateRepo"
    /\ deployment_log = << >>
    /\ calls = << >>
    /\ entered = << >>
    /\ locals = NoLocals
    /\ app_url = "platform_url"
    /\ raised = "none"
    /\ result = NoResult
    /\ probes = << >>
    /\ provisioned = {}
    /\ clock = 0
    /\ repo_names = << >>
    /\ blocked = "none"
    /\ validation = NoValidation
    /\ steps = << >>
    /\ cwd = OriginalCwd
    /\ temp_dirs = << >>
    /\ fs = {}
    /\ log_reads = {}
    /\ given_url = NoUrls
    /\ users = NoUsers
    /\ requests = NoRequests
    /\ response = NoReply

\* monitoring.setup_monitoring(app_url, repo_name)
SetupMonitoring ==
    /\ ~locals.monitoring_result.set
    /\ \E ddOk \in BOOLEAN, health \in ProbeOutcomes, uptime \in ProbeOutcomes :
         /\ locals' = [locals EXCEPT
                !.monitoring_result = setup_monitoring(creds, ddOk, health, uptime)]
         /\ steps' = steps \o MonitoringSteps(creds, ddOk, health, uptime)
    /\ calls' = Append(calls, "setup_monitoring")
    /\ UNCHANGED <<Inputs, pc, deployment_log, entered, app_url, raised,
                   result, probes, provisioned, clock, repo_names, blocked,
                   validation, cwd, temp_dirs, fs, log_reads>>
    /\ UNCHANGED <<given_url, users, requests, response>>

\* cicd.setup_pipeline(repo_name, platform)
SetupPipeline ==
    /\ ~locals.cicd_result.set
    /\ \E workflowOk \in BOOLEAN, protectionOk \in BOOLEAN, envOk \in BOOLEAN :
         /\ locals' = [locals EXCEPT
                !.cicd_result = setup_pipeline(creds, workflowOk)]
         /\ steps' = steps \o PipelineSteps(creds, workflowOk, protectionOk, envOk)
    /\ calls' = Append(calls, "setup_pipeline")
    /\ UNCHANGED <<Inputs, pc, deployment_log, entered, app_url, raised,
                   result, probes, provisioned, clock, repo_names, blocked,
                   validation, cwd, temp_dirs, fs, log_reads>>
    /\ UNCHANGED <<given_url, users, requests, response>>

NextMonitoringCI ==
    \/ SetupMonitoring
    \/ SetupPipeline

SpecMonitoringCI == InitMonitoringCI /\ [][NextMonitoringCI]_vars

----------------------------------------------------------------------------
(* The web application: POST /api/optimize (src/main.py)                   *)

\* `plan == 'free' and usage_count >= 5`, `plan == 'basic' and usage_count >= 100`
FreeLimit == 5

BasicLimit == 100

\* At most MaxRequests requests are received; the optimized text has one word
\* or MaxWords words, and at most MaxMarks '!' and MaxMarks '?'.
MaxRequests == 2

MaxWords == 10

MaxMarks == 1

\* The ids of the rows of table users; AUTOINCREMENT ids start at 1.
UserIds == {1, 2}

\* session['user_id'] of a request: 0 stands for a session without user_id,
\* 3 for the id of a row that does not exist.
SessionUsers == {0, 1, 2, 3}

Contents == {"empty", "text", "too_long"}

Audiences == {"General", "Business"}

Row(plan, n) == [plan |-> plan, usage_count |-> n]

\* Rows a user can have got to: a new account, a plan one use short of its
\* limit (the next success takes it to the limit).
InitialRows ==
    {Row("free", 0), Row("free", FreeLimit - 1), Row("basic", BasicLimit - 1)}

Min(a, b) == IF a < b THEN a ELSE b

Max(a, b) == IF a > b THEN a ELSE b

\* min(100, max(50, words * 2 + '!' * 5 + '?' * 3 + (80 or 60)))
engagement_score_uncapped(words, bangs, questions, target_audience) ==
    Max(50, words * 2 + bangs * 5 + questions * 3
            + (IF target_audience # "General" THEN 80 ELSE 60))

engagement_score(words, bangs, questions, target_audience) ==
    Min(100, Max(50, words * 2 + bangs * 5 + questions * 3
                     + (IF target_audience # "General" THEN 80 ELSE 60)))

\* The test of the plan limits on the row that was read.
LimitReached(row) ==
    \/ row.plan = "free" /\ row.usage_count >= FreeLimit
    \/ row.plan = "basic" /\ row.usage_count >= BasicLimit

\* UPDATE users SET usage_count = usage_count + 1 WHERE id = ?
IncrementUsageTwice(rows, id) ==
    [rows EXCEPT ![id].usage_count = @ + 2]

IncrementUsage(rows, id) ==
    [rows EXCEPT ![id].usage_count = @ + 1]

Reply(status, score, n) ==
    [status |-> status, engagement_score |-> score, usage_count |-> n]

\* A request in the handler: the session's user, the row it read, where it
\* is, and the status it was answered with (0: not answered yet).
Request(uid, row, at, status) ==
    [user_id |-> uid, row |-> row, pc |-> at, status |-> status]

NoRow == Row("none", 0)

InitOptimize ==
    /\ creds = CredNames
    /\ platforms = Registry(creds)
    /\ platform = "railway"
    /\ custom_domain = FALSE
    /\ pc = "CreateRepo"
    /\ deployment_log = << >>
    /\ calls = << >>
    /\ entered = << >>
    /\ locals = NoLocals
    /\ app_url = "none"
    /\ raised = "none"
    /\ result = NoResult
    /\ probes = << >>
    /\ provisioned = {}
    /\ clock = 0
    /\ repo_names = << >>
    /\ blocked = "none"
    /\ validation = NoValidation
    /\ steps = << >>
    /\ cwd = OriginalCwd
    /\ temp_dirs = << >>
    /\ fs = {}
    /\ log_reads = {}
    /\ given_url = NoUrls
    /\ users \in [UserIds -> InitialRows]
    /\ requests = << >>
    /\ response = NoReply

Deployer ==
    <<Inputs, pc, deployment_log, calls, entered, locals, app_url, raised,
      result, probes, provisioned, clock, repo_names, blocked, validation,
      steps, cwd, temp_dirs, fs, log_reads, given_url>>

\* A request arrives and runs up to the call of the AI service: the session
\* test, the tests of the content, the SELECT of the user's row and the test
\* of the plan limit.  Each request opens its own connection and the SELECT
\* holds no lock when the AI service is called.
ReceiveRequest ==
    /\ Len(requests) < MaxRequests
    /\ \E uid \in SessionUsers, content \in Contents :
         LET answer(status) ==
                 /\ requests' = Append(requests,
                                       Request(uid, NoRow, "done", status))
                 /\ response' = Reply(status, 0, 0)
         IN  IF uid = 0 THEN answer(401)
             ELSE IF content # "text" THEN answer(400)
             ELSE IF uid \notin DOMAIN users THEN answer(404)
             ELSE IF LimitReached(users[uid]) THEN answer(403)
             ELSE /\ requests' = Append(requests,
                                        Request(uid, users[uid], "ai", 0))
                  /\ response' = response
    /\ UNCHANGED <<users, Deployer>>

\* The AI service answers, or the call raises; on an answer the handler
\* computes the score, runs the UPDATE, commits and responds.
CompleteRequest ==
    \E i \in 1..Len(requests) :
        /\ requests[i].pc = "ai"
        /\ \/ /\ requests' = [requests EXCEPT ![i].pc = "done",
                                               ![i].status = 500]
              /\ response' = Reply(500, 0, 0)
              /\ users' = users
           \/ \E words \in {1, MaxWords}, bangs \in 0..MaxMarks,
                 questions \in 0..MaxMarks, target_audience \in Audiences :
                /\ users' = IncrementUsage(users, requests[i].user_id)
                /\ requests' = [requests EXCEPT ![i].pc = "done",
                                                 ![i].status = 200]
                /\ response' =
                       Reply(200,
                             engagement_score(words, bangs, questions,
                                              target_audience),
                             requests[i].row.usage_count + 1)
        /\ UNCHANGED Deployer

NextOptimize ==
    \/ ReceiveRequest
    \/ CompleteRequest

SpecOptimize == InitOptimize /\ [][NextOptimize]_vars

----------------------------------------------------------------------------
(* Vocabulary of the properties *)

Range(q) == {q[i] : i \in 1..Len(q)}

\* Number of lines of the stage s and of one of the kinds ks in the log lg.
Lines(lg, s, ks) ==
    Cardinality({i \in 1..Len(lg) : lg[i].stage = s /\ lg[i].kind \in ks})

LaterThan(s) == {t \in Stages : StageIndex(t) > StageIndex(s)}

FatalStages == {"CreateRepo", "PushSource", "SelectPlatform", "Deploy"}

Configurators == {"Monitoring", "CI", "Email", "BusinessOps"}

\* The stage a collaborator method belongs to.
CallStage(c) ==
    CASE c = "create_repository" -> "CreateRepo"
      [] c = "_push_mvp_files" -> "PushSource"
      [] c = "setup_environment_variables" -> "InjectSecrets"
      [] c \in {"create_service", "deploy_project", "create_deployment"}
           -> "Deploy"
      [] c = "setup_domain" -> "BindDomain"
      [] c = "setup_monitoring" -> "Monitoring"
      [] c = "setup_pipeline" -> "CI"
      [] c = "setup_notifications" -> "Email"
      [] c = "setup_operations" -> "BusinessOps"
      [] c = "_verify_deployment" -> "Verify"

\* The result local a stage stores what its collaborator returned in.
LocalOf(s) ==
    CASE s = "CreateRepo" -> locals.repo_result
      [] s = "PushSource" -> locals.push_result
      [] s = "InjectSecrets" -> locals.env_result
      [] s = "Deploy" -> locals.deploy_result
      [] s = "BindDomain" -> locals.domain_result
      [] s = "Monitoring" -> locals.monitoring_result
      [] s = "CI" -> locals.cicd_result
      [] s = "Email" -> locals.email_result
      [] s = "BusinessOps" -> locals.business_result
      [] OTHER -> Unset

ReturnedFailure(s) == LocalOf(s).set /\ ~LocalOf(s).success

\* The fatal stage s has failed.
FatalStageFailed(s) ==
    IF s = "SelectPlatform"
    THEN "SelectPlatform" \in Range(entered) /\ platform \notin Registry(creds)
    ELSE ReturnedFailure(s)

Returned == result.state = "returned"

----------------------------------------------------------------------------
(* C1 *)

\* C1: when a fatal stage (repository creation, source push, platform
\* selection, platform provisioning) fails, deploy_mvp has halted and
\* returned success=false with an error; no later stage was entered, no
\* collaborator of a later stage was called and the returned log holds no
\* line of a later stage.
C1_FatalStageHalts ==
    \A s \in FatalStages :
        FatalStageFailed(s) =>
            /\ pc = "done"
            /\ Returned
            /\ ~result.success
            /\ result.error.kind # "none"
            /\ Range(entered) \cap LaterThan(s) = {}
            /\ \A c \in Range(calls) : CallStage(c) \notin LaterThan(s)
            /\ \A e \in Range(result.log) :
                   e.stage \in Stages /\ e.stage \notin LaterThan(s)

\* Platform provisioning has failed: the last of the fatal stages.
C1_Witness ==
    /\ ReturnedFailure("Deploy")
    /\ Returned
    /\ Len(result.log) > 0

----------------------------------------------------------------------------
(* C2 *)

\* C2: a returned result has success=true if and only if repository
\* creation, source push, platform selection and platform provisioning all
\* succeeded and no exception was raised; whether secret injection, domain
\* binding, a configurator or a verification probe succeeded does not enter.
C2_SuccessIffFatalStagesSucceeded ==
    Returned =>
        (result.success <=>
            /\ locals.repo_result.success
            /\ locals.push_result.success
            /\ platform \in Registry(creds)
            /\ locals.deploy_result.success
            /\ raised = "none")

\* A successful result although secret injection, CI and Email failed and
\* the verification probes did not pass.
C2_Witness ==
    /\ Returned
    /\ result.success
    /\ ReturnedFailure("InjectSecrets")
    /\ ReturnedFailure("CI")
    /\ ReturnedFailure("Email")
    /\ ~result.verification.overall_status

----------------------------------------------------------------------------
(* C3 *)

\* C3: a failure result of Monitoring, CI, Email or BusinessOps is only
\* logged: the call that received it still enters Verify and returns
\* success=true.
C3_ConfiguratorFailureIsDegraded ==
    \A s \in Configurators :
        (ReturnedFailure(s) /\ pc = "done") =>
            /\ Returned
            /\ result.success
            /\ "Verify" \in Range(entered)

----------------------------------------------------------------------------
(* C4 *)

FailedConfigurators == {s \in Configurators : ReturnedFailure(s)}

AttemptedConfigurators == {s \in Configurators : LocalOf(s).set}

\* C4: a finished call in which every stage through Deploy succeeded and
\* every configurator that was given the chance to run failed has
\* success=true, a populated app_url, one warning line per failed
\* configurator and no failure line.
C4_AllConfiguratorsFail ==
    ( /\ pc = "done"
      /\ locals.deploy_result.success
      /\ AttemptedConfigurators # {}
      /\ AttemptedConfigurators = FailedConfigurators )
    =>
    ( /\ Returned
      /\ result.success
      /\ result.app_url # "none"
      /\ \A s \in Configurators :
             Lines(result.log, s, {"warn"}) =
                 (IF s \in FailedConfigurators THEN 1 ELSE 0)
      /\ \A e \in Range(result.log) : e.kind # "fail" )

----------------------------------------------------------------------------
(* C5 *)

\* C5: no exception leaves deploy_mvp: once an exception has been raised
\* in the pipeline the call has returned success=false with the exception
\* as error and with the log as it stood, closed by the handler's line.
C5_NoExceptionPropagates ==
    /\ result.state # "raised"
    /\ raised # "none" =>
           /\ pc = "done"
           /\ Returned
           /\ ~result.success
           /\ result.error.kind = raised
           /\ result.log = deployment_log
           /\ result.log[Len(result.log)] = ExceptionEntry
           /\ \A s \in Range(entered) \ {"Deploy"} :
                  Lines(result.log, s, {"start"}) = 1

\* The KeyError of a Monitoring result without 'error' was caught.
C5_Witness ==
    /\ raised = "KeyError"
    /\ Returned
    /\ ReturnedFailure("Monitoring")

----------------------------------------------------------------------------
(* C6 *)

\* C6: a finished call that asked for a platform outside the registry has
\* returned success=false with an error that names the requested platform
\* and lists the registered platform IDs, and its log holds the lines of the
\* stages before platform selection and no line of Deploy or a later stage.
C6_UnregisteredPlatformError ==
    (pc = "done" /\ platform \notin Registry(creds)) =>
        /\ Returned
        /\ ~result.success
        /\ result.error.kind = "Platform not available"
        /\ result.error.platform = platform
        /\ result.error.available = PlatformList(creds)
        /\ \A e \in Range(result.log) :
               e.stage \in Stages
               /\ StageIndex(e.stage) <= StageIndex("SelectPlatform")

----------------------------------------------------------------------------
(* C7 *)

\* C7: the 'platform not available' result is returned before any
\* external side effect: no repository was created, no source pushed and
\* no secret set.
C7_PlatformCheckedBeforeSideEffects ==
    (Returned /\ result.error.kind = "Platform not available") =>
        calls = << >>

----------------------------------------------------------------------------
(* C8 *)

\* C8: when repository creation fails the call has returned success=false
\* with a repository-creation error, the log has length 1, and nothing but
\* create_repository was attempted: no push, no secret injection, no
\* provisioning, no configurator.
C8_CreateRepoFailure ==
    ReturnedFailure("CreateRepo") =>
        /\ pc = "done"
        /\ Returned
        /\ ~result.success
        /\ result.error.kind = "GitHub repository creation failed"
        /\ Len(result.log) = 1
        /\ calls = <<"create_repository">>
        /\ entered = <<"CreateRepo">>

C8_Witness ==
    /\ ReturnedFailure("CreateRepo")
    /\ Returned
    /\ result.log = <<Entry("CreateRepo", "start")>>

----------------------------------------------------------------------------
(* C9 *)

\* The declared order of the stages for a request.
DeclaredOrder(domain) ==
    SelectSeq(StageOrder, LAMBDA s : s # "BindDomain" \/ domain)

\* C9: the stages are entered in the declared order, BindDomain only when
\* a custom domain was requested, every collaborator is called in the order
\* of its stage, and the log lines of Monitoring, CI, Email and BusinessOps
\* appear in that order.
C9_FixedStageOrder ==
    /\ Len(entered) <= Len(DeclaredOrder(custom_domain))
    /\ \A i \in 1..Len(entered) :
           entered[i] = DeclaredOrder(custom_domain)[i]
    /\ \A i, j \in 1..Len(calls) :
           i < j => StageIndex(CallStage(calls[i]))
                        < StageIndex(CallStage(calls[j]))
    /\ \A i, j \in 1..Len(deployment_log) :
           ( /\ i < j
             /\ deployment_log[i].stage \in Configurators
             /\ deployment_log[j].stage \in Configurators )
           => StageIndex(deployment_log[i].stage)
                  <= StageIndex(deployment_log[j].stage)

\* A complete run with a custom domain: all eleven stages were entered.
C9_Witness ==
    /\ pc = "done"
    /\ custom_domain
    /\ Len(entered) = Len(StageOrder)
    /\ \A s \in Configurators : Lines(deployment_log, s, {"start"}) = 1

----------------------------------------------------------------------------
(* C10 *)

Completed(s) ==
    /\ s \in Range(entered)
    /\ s # entered[Len(entered)] \/ pc # "done"

----------------------------------------------------------------------------
(* C11 *)

\* C11: every returned result carries 'success' and the log as accumulated;
\* a success result also carries app_url, repo_url, platform, deployment_id
\* and verification, a failure result carries an error message.
C11_ResultShape ==
    Returned =>
        /\ {"success", "log"} \subseteq result.keys
        /\ result.log = deployment_log
        /\ Len(result.log) > 0
        /\ result.success =>
               /\ {"app_url", "repo_url", "platform", "deployment_id",
                   "verification"} \subseteq result.keys
               /\ result.app_url # "none"
               /\ result.verification.done
        /\ ~result.success =>
               /\ "error" \in result.keys
               /\ result.error.kind # "none"

\* One result of each of the three kinds exists; this one is a success
\* that carries the log up to the verification announcement.
C11_Witness ==
    /\ Returned
    /\ result.success
    /\ result.log[Len(result.log)] = Entry("Verify", "start")
    /\ "verification" \in result.keys

----------------------------------------------------------------------------
(* C12 *)

\* C12: when setup_environment_variables returns false the call logs one
\* warning, goes on to platform selection (and, for a registered platform,
\* to provisioning), and no failure it returns is about the secrets.
C12_SecretFailureNotFatal ==
    ReturnedFailure("InjectSecrets") =>
        /\ Lines(deployment_log, "InjectSecrets", {"warn"}) = 1
        /\ pc = "SelectPlatform" \/ "SelectPlatform" \in Range(entered)
        /\ ("SelectPlatform" \in Range(entered)
                /\ platform \in Registry(creds))
           => (pc = "Deploy" \/ "Deploy" \in Range(entered))
        /\ (Returned /\ ~result.success) =>
               result.error.kind \in
                   {"Platform not available", "deployment failed", "KeyError"}

\* Secret injection failed and the call still returned success=true.
C12_Witness ==
    /\ ReturnedFailure("InjectSecrets")
    /\ Returned
    /\ result.success
    /\ AdapterOp(platform) \in Range(calls)

----------------------------------------------------------------------------
(* C13 *)

\* C13: a finished call whose domain setup failed has returned
\* success=true with the platform's URL as app_url, and its log holds
\* exactly one warning line of the domain stage.
C13_DomainFailureKeepsPlatformUrl ==
    (pc = "done" /\ ReturnedFailure("BindDomain")) =>
        /\ Returned
        /\ result.success
        /\ result.app_url = "platform_url"
        /\ Lines(result.log, "BindDomain", {"warn"}) = 1

----------------------------------------------------------------------------
(* C14 *)

\* What the probe came back with, "not issued" when it was never sent.
ProbeOutcome(name) ==
    IF \E i \in 1..Len(probes) : probes[i].probe = name
    THEN probes[CHOOSE i \in 1..Len(probes) : probes[i].probe = name].outcome
    ELSE "not issued"

ProbeTimedOut == \E i \in 1..Len(probes) : probes[i].outcome = "timeout"

\* C14: overall_status is true if and only if the health probe and the
\* root-page probe both came back with success (HTTP 200, the test of the
\* code); a timeout or transport error on a probe gives overall_status=false
\* and no exception leaves _verify_deployment: the call still returns its
\* success result.
C14_OverallStatus ==
    result.verification.done =>
        /\ result.verification.overall_status <=>
               (ProbeOutcome("health") = "200" /\ ProbeOutcome("main") = "200")
        /\ ProbeTimedOut => ~result.verification.overall_status
        /\ raised = "none"
        /\ Returned
        /\ result.success

\* The root-page probe timed out after a healthy health probe.
C14_Witness ==
    /\ result.verification.done
    /\ ProbeOutcome("health") = "200"
    /\ ProbeOutcome("main") = "timeout"
    /\ ~result.verification.overall_status

----------------------------------------------------------------------------
(* C15 *)

\* C15: _verify_deployment issues both probes, each flag reports its own
\* probe, and error is populated exactly when a probe timed out or failed
\* in transport.
C15_ProbesIndependent ==
    result.verification.done =>
        /\ Len(probes) = 2
        /\ result.verification.health_check = (ProbeOutcome("health") = "200")
        /\ result.verification.main_page = (ProbeOutcome("main") = "200")
        /\ result.verification.error = ProbeTimedOut

----------------------------------------------------------------------------
(* C17 *)

\* C17: within one deploy_mvp call no collaborator is invoked twice and no
\* stage has more than one invocation, whatever the outcomes.
C17_NoRetry ==
    /\ \A i, j \in 1..Len(calls) : i # j => calls[i] # calls[j]
    /\ \A s \in Stages :
           Cardinality({i \in 1..Len(calls) : CallStage(calls[i]) = s}) <= 1
    /\ \A i, j \in 1..Len(entered) : i # j => entered[i] # entered[j]

\* A finished call in which secret injection, domain setup, CI and Email
\* all failed: ten collaborator calls, none repeated.
C17_Witness ==
    /\ pc = "done"
    /\ ReturnedFailure("InjectSecrets")
    /\ ReturnedFailure("BindDomain")
    /\ ReturnedFailure("CI")
    /\ ReturnedFailure("Email")
    /\ Len(calls) = 10

----------------------------------------------------------------------------
(* C19 *)

\* C19: when the adapter returns success=false, every resource it has
\* already created on the platform is named by an identifier in the
\* returned dict.
C19_PartialProvisioningReported ==
    ReturnedFailure("Deploy") =>
        provisioned \subseteq locals.deploy_result.ids

----------------------------------------------------------------------------
(* C20 *)

\* C20: whenever the result of setup_monitoring, setup_pipeline,
\* setup_notifications, setup_operations or setup_domain has success=false
\* it carries an 'error' entry.
C20_FailureCarriesError ==
    \A s \in Configurators \cup {"BindDomain"} :
        ReturnedFailure(s) => LocalOf(s).has_error

----------------------------------------------------------------------------
(* C16 *)

\* C16: no two deploy_mvp calls use the same repository name.
C16_RepoNamesUnique ==
    \A i, j \in 1..Len(repo_names) :
        i # j => repo_names[i] # repo_names[j]

----------------------------------------------------------------------------
(* C18 *)

\* C18: deploy_mvp never waits without bound: no request it sends can be
\* left waiting forever by a service that does not answer.
C18_NoRequestBlocksForever ==
    /\ pc # "blocked"
    /\ blocked = "none"

----------------------------------------------------------------------------
(* C21 *)

AdapterOps == {"create_service", "deploy_project", "create_deployment"}

\* C21: the registry holds render, railway, vercel exactly when
\* RENDER_API_KEY, RAILWAY_TOKEN, VERCEL_TOKEN are present and nothing else;
\* get_deployment_status reports exactly the registered IDs; deploy_mvp makes
\* at most one provisioning call, only for a registered platform, and it is
\* create_service for render, deploy_project for railway, create_deployment
\* for vercel.
C21_RegistryMatchesCredentials ==
    /\ platforms \subseteq {"render", "railway", "vercel"}
    /\ ("render" \in platforms) = Has(creds, "RENDER_API_KEY")
    /\ ("railway" \in platforms) = Has(creds, "RAILWAY_TOKEN")
    /\ ("vercel" \in platforms) = Has(creds, "VERCEL_TOKEN")
    /\ get_deployment_status(platforms, creds).platforms_available = platforms
    /\ Cardinality({i \in 1..Len(calls) : calls[i] \in AdapterOps}) <= 1
    /\ \A i \in 1..Len(calls) :
           calls[i] \in AdapterOps =>
               /\ platform \in platforms
               /\ platform = "render" => calls[i] = "create_service"
               /\ platform = "railway" => calls[i] = "deploy_project"
               /\ platform = "vercel" => calls[i] = "create_deployment"

\* Railway was provisioned by a deployer that holds no Render key.
C21_Witness ==
    /\ ~Has(creds, "RENDER_API_KEY")
    /\ platform = "railway"
    /\ "deploy_project" \in Range(calls)
    /\ platforms = {"railway", "vercel"}

----------------------------------------------------------------------------
(* C22 *)

\* The checklist items that name one secret.
SingleSecretChecks ==
    {"RAILWAY_TOKEN", "VERCEL_TOKEN", "RENDER_API_KEY", "GITHUB_TOKEN",
     "GITHUB_APP_ID", "GITHUB_PRIVATE_KEY", "SENDGRID_API_KEY",
     "MAILGUN_API_KEY", "MAILCHIMP_API_KEY", "OPENAI_API_KEY",
     "STRIPE_SECRET_KEY", "TELEGRAM_BOT_TOKEN"}

\* C22: validate_credentials reports total = 13 for every credential
\* mapping; passed is the number of single-secret items that are present
\* plus one for the domain item when the registrar key and the registrar
\* secret are both present; 0 <= passed <= total.
C22_ReadinessScore ==
    validation.done =>
        /\ validation.total = 13
        /\ validation.passed =
               Cardinality(SingleSecretChecks \cap creds)
               + (IF "GODADDY_API_KEY" \in creds /\ "GODADDY_SECRET" \in creds
                  THEN 1 ELSE 0)
        /\ 0 <= validation.passed
        /\ validation.passed <= validation.total

\* Everything is present but the registrar secret: the domain item fails.
C22_Witness ==
    /\ validation.done
    /\ "GODADDY_API_KEY" \in creds
    /\ "GODADDY_SECRET" \notin creds
    /\ SingleSecretChecks \subseteq creds
    /\ validation.passed = 12

----------------------------------------------------------------------------
(* C23 *)

\* The steps the method m ran, in order.
StepsOf(m) == SelectSeq(steps, LAMBDA x : x.of = m)

StepNames(q) == [i \in 1..Len(q) |-> q[i].step]

----------------------------------------------------------------------------
(* C24 *)

\* C24: setup_notifications calls at most one backend: Mailchimp when its
\* key is present, else SendGrid when its key is present, else Mailgun when
\* its key is present; a failed backend fails the call without a second
\* backend being tried; without any of the three keys no backend is called
\* and the result is a failure.
C24_OneEmailBackend ==
    locals.email_result.set =>
        LET q == StepsOf("setup_notifications")
            chosen == IF "MAILCHIMP_API_KEY" \in creds
                      THEN <<"_setup_mailchimp_notifications">>
                      ELSE IF "SENDGRID_API_KEY" \in creds
                      THEN <<"_setup_sendgrid_notifications">>
                      ELSE IF "MAILGUN_API_KEY" \in creds
                      THEN <<"_setup_mailgun_notifications">>
                      ELSE << >>
        IN  /\ Len(q) <= 1
            /\ StepNames(q) = chosen
            /\ locals.email_result.success <=> (Len(q) = 1 /\ q[1].ok)
            /\ ~locals.email_result.success => locals.email_result.has_error

\* Mailchimp failed with the SendGrid and Mailgun keys at hand.
C24_Witness ==
    /\ locals.email_result.set
    /\ {"MAILCHIMP_API_KEY", "SENDGRID_API_KEY", "MAILGUN_API_KEY"}
           \subseteq creds
    /\ StepsOf("setup_notifications")
           = <<Step("setup_notifications", "_setup_mailchimp_notifications",
                    FALSE)>>
    /\ ~locals.email_result.success

----------------------------------------------------------------------------
(* C25 *)

TwoHundreds == {"200", "204"}

\* C25: when both probes got a response, health_check is true exactly when
\* the status of the health probe is a 2xx and main_page exactly when the
\* status of the root-page probe is a 2xx.
C25_Any2xxSucceeds ==
    (result.verification.done /\ ~ProbeTimedOut) =>
        /\ result.verification.health_check
               = (ProbeOutcome("health") \in TwoHundreds)
        /\ result.verification.main_page
               = (ProbeOutcome("main") \in TwoHundreds)

----------------------------------------------------------------------------
(* C26 *)

PushReturned == locals.push_result.set

\* C26: once _push_mvp_files has returned, with success or with a failure
\* of clone, copy, add, commit or push, the working directory of the process
\* is the one the call started in.
C26_CwdRestored ==
    PushReturned => cwd = OriginalCwd

\* git push failed after the process had changed into the temp_dir.
C26_Witness ==
    /\ PushReturned
    /\ Len(steps) = Len(PushSteps)
    /\ steps[Len(steps)] = Step("_push_mvp_files", "push", FALSE)
    /\ cwd = OriginalCwd

----------------------------------------------------------------------------
(* C27 *)

\* C27: once _push_mvp_files has returned, the temporary directory it
\* created no longer exists.
C27_TempDirRemoved ==
    PushReturned => \A i \in 1..Len(temp_dirs) : temp_dirs[i] \notin fs

----------------------------------------------------------------------------
(* C28 *)

\* C28: two _push_mvp_files calls never use the same temporary directory;
\* stated for calls whose repositories have different names.
C28_TempDirsDistinct ==
    (\A i, j \in 1..Len(repo_names) : i # j => repo_names[i] # repo_names[j])
    => (\A i, j \in 1..Len(temp_dirs) : i # j => temp_dirs[i] # temp_dirs[j])

----------------------------------------------------------------------------
(* C29 *)

\* C29: _push_mvp_files runs clone, copy, add, commit, push in that order
\* and stops at the first step that fails; it returns success=true exactly
\* when all five ran and succeeded; on a failure deploy_mvp has returned
\* success=false with the error 'File push failed' and entered no later
\* stage.
C29_PushAllOrNothing ==
    PushReturned =>
        LET q == StepsOf("_push_mvp_files")
            order == <<"clone", "copy", "add", "commit", "push">>
        IN  /\ Len(q) \in 1..5
            /\ StepNames(q) = SubSeq(order, 1, Len(q))
            /\ \A i \in 1..Len(q) : i < Len(q) => q[i].ok
            /\ locals.push_result.success <=>
                   (Len(q) = 5 /\ \A i \in 1..Len(q) : q[i].ok)
            /\ ~locals.push_result.success =>
                   /\ pc = "done"
                   /\ Returned
                   /\ ~result.success
                   /\ result.error.kind = "File push failed"
                   /\ Range(entered) \cap LaterThan("PushSource") = {}

\* git commit failed: push was not run and the call returned the failure.
C29_Witness ==
    /\ PushReturned
    /\ StepNames(StepsOf("_push_mvp_files"))
           = <<"clone", "copy", "add", "commit">>
    /\ ~steps[Len(steps)].ok
    /\ Returned
    /\ result.error.kind = "File push failed"

----------------------------------------------------------------------------
(* C30 *)

\* C30: the text of no log line and of no returned error is computed from
\* the value of an entry of the credentials.
C30_LogIndependentOfSecretValues ==
    log_reads = {}

----------------------------------------------------------------------------
(* C31 *)

\* C31: the engagement score of every successful /api/optimize response
\* lies within 0..100.
C31_ScoreBounded ==
    response.status = 200 =>
        /\ response.engagement_score >= 0
        /\ response.engagement_score <= 100

\* A long, emphatic text for a named audience: the score sits at the cap.
C31_Witness ==
    /\ response.status = 200
    /\ response.engagement_score = 100

----------------------------------------------------------------------------
(* C36 *)

\* C36: the usage_count of a free-plan user is at most 5 and that of a
\* basic-plan user at most 100, whatever requests were processed and however
\* they were interleaved.
C36_QuotaNeverExceeded ==
    \A u \in DOMAIN users :
        /\ users[u].plan = "free" => users[u].usage_count <= 5
        /\ users[u].plan = "basic" => users[u].usage_count <= 100

----------------------------------------------------------------------------
(* C37 *)

\* The requests of user u that this step answers with a success.
NewlyServed(u) ==
    {i \in 1..Len(requests') :
        /\ requests'[i].user_id = u
        /\ requests'[i].status = 200
        /\ (i > Len(requests) \/ requests[i].status # 200)}

\* C37: a step of /api/optimize adds one to the usage_count of the
\* requesting user when it answers that user's request with a success and
\* leaves the usage_count of every user as it was otherwise: a request
\* answered 401, 400, 404, 403 or 500 changes no usage_count.
C37_UsageFrame ==
    [][\A u \in DOMAIN users :
           /\ u \in DOMAIN users'
           /\ users'[u].usage_count =
                  users[u].usage_count + Cardinality(NewlyServed(u))
           /\ Cardinality(NewlyServed(u)) <= 1]_vars

\* User 1 had one request served and one that failed in the AI call.
C37_Witness ==
    /\ \E i, j \in 1..Len(requests) :
           /\ requests[i].user_id = 1
           /\ requests[i].status = 200
           /\ requests[j].user_id = 1
           /\ requests[j].status = 500
    /\ response.status \in {200, 500}

----------------------------------------------------------------------------
(* C32 *)

UrlStages == {"Monitoring", "Email", "BusinessOps", "Verify"}

\* C32: once setup_domain has returned success, every later stage that takes
\* the application URL (Monitoring, Email, BusinessOps, the verification
\* probes) is given the custom-domain URL, the deployer's app_url is the
\* custom-domain URL, and so is the app_url of the success result.
C32_CustomUrlForRestOfRun ==
    (locals.domain_result.set /\ locals.domain_result.success) =>
        /\ app_url = "custom_domain_url"
        /\ \A s \in UrlStages :
               s \in Range(entered) => given_url[s] = "custom_domain_url"
        /\ (Returned /\ result.success) => result.app_url = "custom_domain_url"

\* A run with a bound custom domain that went through all four stages and
\* returned the success result.
C32_Witness ==
    /\ locals.domain_result.set
    /\ locals.domain_result.success
    /\ UrlStages \subseteq Range(entered)
    /\ given_url["Verify"] = "custom_domain_url"
    /\ Returned
    /\ result.success
    /\ result.app_url = "custom_domain_url"

----------------------------------------------------------------------------
(* C33 *)

\* C33: setup_operations returns success for the credential mapping of the
\* run, with or without the billing credential; so once deploy_mvp has
\* entered the BusinessOps stage the stage has its success line and no
\* warning line, and it raised nothing.
C33_BusinessOpsNeverDegraded ==
    /\ setup_operations(creds).success
    /\ "BusinessOps" \in Range(entered) =>
           /\ locals.business_result.set
           /\ locals.business_result.success
           /\ Lines(deployment_log, "BusinessOps", {"ok"}) = 1
           /\ Lines(deployment_log, "BusinessOps", {"warn"}) = 0
           /\ raised = "none"

\* The BusinessOps stage has run without the billing credential.
C33_Witness ==
    /\ ~Has(creds, "STRIPE_SECRET_KEY")
    /\ "BusinessOps" \in Range(entered)
    /\ locals.business_result.success
    /\ Lines(deployment_log, "BusinessOps", {"ok"}) = 1

----------------------------------------------------------------------------
(* C34, C35 *)

\* C34: setup_monitoring runs Sentry (with a DSN), Datadog (with an API
\* key), the health check and the uptime check, in that order and all of
\* them whatever the earlier ones returned; it returns success exactly when
\* one of the checks it ran succeeded, and total_services is the number of
\* checks it ran.
C34_MonitoringRunsEveryCheck ==
    locals.monitoring_result.set =>
        LET q == StepsOf("setup_monitoring")
        IN  /\ StepNames(q) =
                   (IF Has(creds, "SENTRY_DSN")
                    THEN <<"_setup_sentry_monitoring">> ELSE << >>)
                   \o (IF Has(creds, "DATADOG_API_KEY")
                       THEN <<"_setup_datadog_monitoring">> ELSE << >>)
                   \o <<"_setup_health_check_monitoring",
                        "_setup_uptime_monitoring">>
            /\ locals.monitoring_result.success <=>
                   \E i \in 1..Len(q) : q[i].ok
            /\ locals.monitoring_result.total_services = Len(q)

\* Datadog and the health check failed, the uptime check ran all the same
\* and succeeded: three checks, success.
C34_Witness ==
    /\ locals.monitoring_result.set
    /\ ~Has(creds, "SENTRY_DSN")
    /\ LET q == StepsOf("setup_monitoring")
       IN  /\ Len(q) = 3
           /\ ~q[1].ok
           /\ ~q[2].ok
           /\ q[3].ok
    /\ locals.monitoring_result.success
    /\ locals.monitoring_result.total_services = 3

\* C35: without the GitHub token setup_pipeline sends no request and returns
\* a failure; with it, the workflow request is the first one, the result is
\* success exactly when the workflow was created, and the branch protection
\* and the environments are requested only after a created workflow, whatever
\* they return.
C35_PipelineFollowsWorkflow ==
    locals.cicd_result.set =>
        LET q == StepsOf("setup_pipeline")
        IN  IF ~Has(creds, "GITHUB_TOKEN")
            THEN /\ q = << >>
                 /\ ~locals.cicd_result.success
            ELSE /\ Len(q) >= 1
                 /\ q[1].step = "_create_github_actions_workflow"
                 /\ locals.cicd_result.success <=> q[1].ok
                 /\ StepNames(q) =
                        IF q[1].ok
                        THEN <<"_create_github_actions_workflow",
                               "_setup_branch_protection",
                               "_create_deployment_environments">>
                        ELSE <<"_create_github_actions_workflow">>

\* The workflow was created, branch protection and environments both
\* failed, and the result is success.
C35_Witness ==
    /\ locals.cicd_result.set
    /\ locals.cicd_result.success
    /\ LET q == StepsOf("setup_pipeline")
       IN  /\ Len(q) = 3
           /\ q[1].ok
           /\ ~q[2].ok
           /\ ~q[3].ok

============================================================================
